---- MODULE Spec2Model ----
(***************************************************************************)
(* fsrs-optimizer-burn: the optimal-retention search (FSRS::new,           *)
(* FSRS::optimal_retention, FSRS::brent, sample) and the deck simulator    *)
(* (simulate) of src/src/optimal_retention.rs.                             *)
(*                                                                         *)
(* Numbers.  f64 values are held in fixed point.  Retention values (x, a,  *)
(* b, u, ...) are counted in units of 1e-4 (ONE = 1.0); products are kept  *)
(* exact and only a quotient is rounded.  The values 1e-10 (mintol, the    *)
(* stability and difficulty of a never-learned slot) and 1e-9 (the         *)
(* has_learned threshold) lie below the resolution and are held as 0.      *)
(***************************************************************************)
EXTENDS Integers, Sequences, FiniteSets, TLC

(***************************************************************************)
(* Fixed point                                                             *)
(***************************************************************************)
\* 1.0 in the retention fixed point (resolution 1e-4)
ONE == 100 * 100

Abs(n) == IF n < 0 THEN -n ELSE n

Sign(n) == IF n >= 0 THEN 1 ELSE -1

\* p / q rounded to the nearest unit, ties away from zero (q # 0)
DivRound(p, q) == Sign(p) * Sign(q) * ((2 * Abs(p) + Abs(q)) \div (2 * Abs(q)))

(***************************************************************************)
(* Bounds of the model                                                     *)
(***************************************************************************)
\* objective values the sampler can return are 1 .. NumObjective
NumObjective == 3

(***************************************************************************)
(* Program constants                                                       *)
(***************************************************************************)
R_MIN == 7500

R_MAX == 9500

SAMPLE_SIZE == 4

maxiter == 64

\* tol = 0.01 is held as its reciprocal: tol * y = y / TolInv
TolInv == 100

\* mintol = 1e-10, below the resolution
mintol == 0

\* cg = 0.3819660, in units of 1e-4
cg == 3820

\* lengths of the parameter vectors handed to FSRS::new and optimal_retention;
\* -1 stands for None
ParamLens == {0, 1, 16, 17, 18}

ObjectiveValues == 1 .. NumObjective

VARIABLES
    \* FSRS::new
    newParams,      \* the Option<&Parameters> argument: -1 = None, else its length
    fsrs,           \* "uncalled" | "Ok" | "InvalidParameters"
    modelW,         \* FSRS.model: "None" | "default" | "given"
    \* optimal_retention
    plen,           \* length of the parameters argument
    simPanics,      \* the config makes a simulation run panic (see SimStep)
    opc,            \* "call" | "sample" | "batch" | "loop" | "done"
    result,         \* "none" | "Ok" | "InvalidParameters" | "Interrupted"
                    \*   | "OptimalNotFound" | "Panic"
    retval,         \* the f64 of Ok(..)
    usedW,          \* the vector brent runs with: "none" | "default" | "given"
    current,        \* progress_info.current
    \* sample
    pending,        \* simulation runs of the running batch not finished yet
    panicked,       \* a run of the running batch panicked
    \* brent
    x, v, w, fx, fv, fw, a, b, deltax, rat, u, iter,
    converged,      \* the loop left through its break
    \* history (not program state)
    calls,          \* the evaluation indices the callback received, in order
    cancelled,      \* the callback has returned false
    nsims,          \* simulation runs finished so far
    nevals,         \* objective evaluations (batches) completed so far
    best,           \* least objective value returned so far (0: none)
    evals,          \* the points evaluated and the values returned, in order
    \* simulate
    config,                 \* the SimulatorConfig
    parameters,             \* w: the 17 weights, in units of 0.01
    desired_retention,      \* in units of 0.01
    existing_cards,         \* Option<Vec<Card>>: a sequence of cards (<<>>: None)
    spc,                    \* "idle" | "loop" | "done" | "panic"
    card_table,             \* the columns of the deck, one record per card
    today,                  \* the day the loop is at
    review_cnt_per_day, learn_cnt_per_day, memorized_cnt_per_day, cost_per_day,
    last,                   \* the masks and costs of the day simulated last
    \* one call of a function of the memory state kernel
    kin,                    \* its arguments
    kpc,                    \* "call" | "done" | "panic"
    kfn,                    \* the function called
    kout,                   \* the value returned
    \* two calls of simulate in a row, to compare what they return
    seed,                   \* the seed argument of the call: -1 = None
    next_seed,              \* the seed argument of the second call
    rng,                    \* StdRng: the seed it was made from, values drawn
    tape,                   \* the values each seed's StdRng yields, as far as seen
    first_out,              \* what the first call returned
    calln,                  \* the number of the call
    \* one call of sample with the value of every run
    outcome,                \* total_cost / total_memorized of simulate, by seed
    progress_ok,            \* what progress() returns
    smp_pc,                 \* "call" | "batch" | "done"
    run_seed,               \* the seed each finished run was given
    run_ratio,              \* the value each finished run returned
    arrived,                \* the runs in the order they finished
    smp_ret                 \* what sample returned

optVars == <<newParams, fsrs, modelW, plen, simPanics, opc, result, retval, usedW,
             current, pending, panicked, x, v, w, fx, fv, fw, a, b, deltax, rat, u,
             iter, converged, calls, cancelled, nsims, nevals, best, evals>>

brentVars == <<x, v, w, fx, fv, fw, a, b, deltax, rat, iter>>

simVars == <<config, parameters, desired_retention, existing_cards, spc, card_table,
             today, review_cnt_per_day, learn_cnt_per_day, memorized_cnt_per_day,
             cost_per_day, last>>

kernVars == <<kin, kpc, kfn, kout>>

seedVars == <<seed, next_seed, rng, tape, first_out, calln>>

smpVars == <<outcome, progress_ok, smp_pc, run_seed, run_ratio, arrived, smp_ret>>

vars == <<optVars, simVars, kernVars, seedVars, smpVars>>

(***************************************************************************)
(* FSRS::new / new_with_backend                                            *)
(***************************************************************************)
\* the length rule shared by FSRS::new and optimal_retention
LengthRejected(len) == len # 0 /\ len # 17

FsrsNew ==
    /\ fsrs = "uncalled"
    /\ IF newParams # -1 /\ LengthRejected(newParams)
       THEN /\ fsrs' = "InvalidParameters"
            /\ modelW' = "None"
       ELSE /\ fsrs' = "Ok"
            /\ modelW' = IF newParams = -1 THEN "None"
                         ELSE IF newParams = 0 THEN "default" ELSE "given"
    /\ UNCHANGED simVars
    /\ UNCHANGED kernVars
    /\ UNCHANGED seedVars
    /\ UNCHANGED smpVars
    /\ UNCHANGED <<newParams, plen, simPanics, opc, result, retval, usedW, current,
                   pending, panicked, brentVars, u, converged, calls, cancelled,
                   nsims, nevals, best, evals>>

(***************************************************************************)
(* FSRS::optimal_retention: validation, then brent's first sample call     *)
(***************************************************************************)
\* a vector of any length but 18 and more is taken as it is
ParametersForLax(len) ==
    IF len = 0 THEN "default" ELSE IF len > 17 THEN "invalid" ELSE "given"

\* lines 454-460: the vector brent runs with
ParametersFor(len) ==
    IF len = 0 THEN "default" ELSE IF len # 17 THEN "invalid" ELSE "given"

OptimalRetention ==
    /\ fsrs = "Ok"
    /\ opc = "call"
    /\ IF ParametersFor(plen) = "invalid"
       THEN /\ result' = "InvalidParameters"
            /\ opc' = "done"
            /\ UNCHANGED <<usedW, u>>
       ELSE /\ usedW' = ParametersFor(plen)
            /\ opc' = "sample"
            /\ u' = R_MIN
            /\ UNCHANGED result
    /\ UNCHANGED simVars
    /\ UNCHANGED kernVars
    /\ UNCHANGED seedVars
    /\ UNCHANGED smpVars
    /\ UNCHANGED <<newParams, fsrs, modelW, plen, simPanics, retval, current,
                   pending, panicked, brentVars, converged, calls, cancelled,
                   nsims, nevals, best, evals>>

(***************************************************************************)
(* sample: the progress call, then SAMPLE_SIZE parallel simulation runs    *)
(***************************************************************************)
\* the index is left as it is
IncProgressStuck(cur) == cur

\* line 470: progress_info.current += 1
IncProgress(cur) == cur + 1

\* the return value of the callback is not looked at
AbortsNever(goOn) == FALSE

\* line 419: if !progress()
Aborts(goOn) == ~goOn

\* the abort is reported as a failed search
AbortErrorNotFound == "OptimalNotFound"

\* line 420: Err(FSRSError::Interrupted)
AbortError == "Interrupted"

\* inc_progress and the callback, then the early return or the start of the batch
SampleProgress(goOn) ==
    /\ opc = "sample"
    /\ current' = IncProgress(current)
    /\ calls' = Append(calls, current')
    /\ cancelled' = ~goOn
    /\ IF Aborts(goOn)
       THEN /\ opc' = "done"
            /\ result' = AbortError
            /\ UNCHANGED pending
       ELSE /\ opc' = "batch"
            /\ pending' = 0 .. (SAMPLE_SIZE - 1)
            /\ UNCHANGED result
    /\ UNCHANGED simVars
    /\ UNCHANGED kernVars
    /\ UNCHANGED seedVars
    /\ UNCHANGED smpVars
    /\ UNCHANGED <<newParams, fsrs, modelW, plen, simPanics, retval, usedW,
                   panicked, brentVars, u, converged, nsims, nevals, best, evals>>

\* one run of the parallel map finishes (any order); with deck_size = 0 or
\* learn_span = 0 the run panics (simulate line 237, sample line 432)
SimStep(i) ==
    /\ opc = "batch"
    /\ i \in pending
    /\ pending' = pending \ {i}
    /\ IF simPanics
       THEN /\ panicked' = TRUE
            /\ UNCHANGED nsims
       ELSE /\ nsims' = nsims + 1
            /\ UNCHANGED panicked
    /\ UNCHANGED simVars
    /\ UNCHANGED kernVars
    /\ UNCHANGED seedVars
    /\ UNCHANGED smpVars
    /\ UNCHANGED <<newParams, fsrs, modelW, plen, simPanics, opc, result, retval,
                   usedW, current, brentVars, u, converged, calls, cancelled,
                   nevals, best, evals>>

\* the panic of a run leaves sample, brent and optimal_retention; runs not
\* started yet may be dropped
SamplePanic ==
    /\ opc = "batch"
    /\ panicked
    /\ opc' = "done"
    /\ result' = "Panic"
    /\ UNCHANGED simVars
    /\ UNCHANGED kernVars
    /\ UNCHANGED seedVars
    /\ UNCHANGED smpVars
    /\ UNCHANGED <<newParams, fsrs, modelW, plen, simPanics, retval, usedW, current,
                   pending, panicked, brentVars, u, converged, calls, cancelled,
                   nsims, nevals, best, evals>>

(***************************************************************************)
(* FSRS::brent                                                             *)
(***************************************************************************)
\* tol1 = tol.mul_add(x.abs(), mintol)
Tol1(xx) == DivRound(Abs(xx), TolInv) + mintol

Tol2(xx) == 2 * Tol1(xx)

\* x < xmid: the test of the golden section step the wrong way round
BelowMid(xx, aa, bb) == 2 * xx < aa + bb

\* x >= xmid, with xmid = 0.5 * (a + b)
AboveMid(xx, aa, bb) == 2 * xx >= aa + bb

\* the width of the bracket is left out of the test
ConvergedLoose(xx, aa, bb) == Abs(2 * xx - (aa + bb)) < 2 * Tol2(xx)

\* (x - xmid).abs() < 0.5.mul_add(-(b - a), tol2), both sides doubled
Converged(xx, aa, bb) == Abs(2 * xx - (aa + bb)) < 2 * Tol2(xx) - (bb - aa)

\* a golden section step: <<deltax, rat>>
Golden(xx, aa, bb) ==
    LET dx == (IF AboveMid(xx, aa, bb) THEN aa ELSE bb) - xx
    IN  <<dx, DivRound(cg * dx, ONE)>>

\* the parabolic fit of lines 517-524: <<p, tmp2>>
Parabola(xx, vv, ww, fxx, fvv, fww) ==
    LET tmp1 == (xx - ww) * (fxx - fvv)
        tmp2 == (xx - vv) * (fxx - fww)
        p0   == (xx - vv) * tmp2 - (xx - ww) * tmp1
        t2   == 2 * (tmp2 - tmp1)
    IN  <<IF t2 > 0 THEN -p0 ELSE p0, Abs(t2)>>

\* check parabolic fit (lines 528-530); the third test doubled
ParabolaUseful(p, tmp2, xx, aa, bb, deltax_tmp) ==
    /\ p > tmp2 * (aa - xx)
    /\ p < tmp2 * (bb - xx)
    /\ 2 * Abs(p) < Abs(tmp2 * deltax_tmp)

\* lines 511-543: the new <<deltax, rat>>
NextStep(xx, vv, ww, fxx, fvv, fww, aa, bb, dx, rt) ==
    IF Abs(dx) <= Tol1(xx)
    THEN Golden(xx, aa, bb)
    ELSE LET pt == Parabola(xx, vv, ww, fxx, fvv, fww)
             p == pt[1]
             tmp2 == pt[2]
         IN  IF ParabolaUseful(p, tmp2, xx, aa, bb, dx)
             THEN LET r0 == DivRound(p, tmp2)
                      u0 == xx + r0
                  IN  IF (u0 - aa) < Tol2(xx) \/ (bb - u0) < Tol2(xx)
                      THEN <<rt, IF aa + bb - 2 * xx >= 0
                                 THEN Tol1(xx) ELSE -Tol1(xx)>>
                      ELSE <<rt, r0>>
             ELSE Golden(xx, aa, bb)

\* update by at least tol1 (lines 545-549)
Trial(xx, rt) == xx + (IF Abs(rt) < Tol1(xx) THEN Tol1(xx) * Sign(rt) ELSE rt)

\* the loop test, the convergence test and the step up to the sample call
BrentIterate ==
    /\ opc = "loop"
    /\ ~converged
    /\ iter < maxiter
    /\ IF Converged(x, a, b)
       THEN /\ converged' = TRUE
            /\ UNCHANGED <<deltax, rat, u, opc>>
       ELSE LET st == NextStep(x, v, w, fx, fv, fw, a, b, deltax, rat)
            IN  /\ deltax' = st[1]
                /\ rat' = st[2]
                /\ u' = Trial(x, st[2])
                /\ opc' = "sample"
                /\ UNCHANGED converged
    /\ UNCHANGED simVars
    /\ UNCHANGED kernVars
    /\ UNCHANGED seedVars
    /\ UNCHANGED smpVars
    /\ UNCHANGED <<newParams, fsrs, modelW, plen, simPanics, result, retval, usedW,
                   current, pending, panicked, x, v, w, fx, fv, fw, a, b, iter,
                   calls, cancelled, nsims, nevals, best, evals>>

\* lines 491-500: the value at R_MIN starts the search
BrentFirst(fb) ==
    /\ x' = R_MIN /\ v' = R_MIN /\ w' = R_MIN
    /\ fx' = fb /\ fv' = fb /\ fw' = fb
    /\ a' = R_MIN /\ b' = R_MAX
    /\ deltax' = 0 /\ iter' = 0 /\ rat' = 0

\* fu > fx, with v replaced only by a value not above fv
UpdateWorseByValue(fu) ==
    /\ IF u < x THEN a' = u /\ b' = b ELSE b' = u /\ a' = a
    /\ IF fu <= fw \/ w = x
       THEN v' = w /\ w' = u /\ fv' = fw /\ fw' = fu
       ELSE IF fu <= fv
       THEN v' = u /\ fv' = fu /\ UNCHANGED <<w, fw>>
       ELSE UNCHANGED <<v, w, fv, fw>>
    /\ UNCHANGED <<x, fx>>

\* fu > fx, lines 554-566
UpdateWorse(fu) ==
    /\ IF u < x THEN a' = u /\ b' = b ELSE b' = u /\ a' = a
    /\ IF fu <= fw \/ w = x
       THEN v' = w /\ w' = u /\ fv' = fw /\ fw' = fu
       ELSE IF fu <= fv \/ v = x \/ v = w
       THEN v' = u /\ fv' = fu /\ UNCHANGED <<w, fw>>
       ELSE UNCHANGED <<v, w, fv, fw>>
    /\ UNCHANGED <<x, fx>>

\* fu <= fx, lines 567-576
UpdateBetter(fu) ==
    /\ IF u >= x THEN a' = x /\ b' = b ELSE b' = x /\ a' = a
    /\ v' = w /\ w' = x /\ x' = u
    /\ fv' = fw /\ fw' = fx /\ fx' = fu

\* the trial point is taken as the new x whatever its value
BrentUpdateAlwaysReplace(fu) ==
    /\ UpdateBetter(fu)
    /\ iter' = iter + 1
    /\ UNCHANGED <<deltax, rat>>

\* lines 553-577
BrentUpdate(fu) ==
    /\ IF fu > fx THEN UpdateWorse(fu) ELSE UpdateBetter(fu)
    /\ iter' = iter + 1
    /\ UNCHANGED <<deltax, rat>>

\* the batch is complete: sample returns the mean fu of the runs, and brent
\* goes on with it up to the head of its loop
SampleReturn(fu) ==
    /\ opc = "batch"
    /\ pending = {}
    /\ ~panicked
    /\ IF nevals = 0 THEN BrentFirst(fu) ELSE BrentUpdate(fu)
    /\ nevals' = nevals + 1
    /\ best' = IF best = 0 \/ fu < best THEN fu ELSE best
    /\ evals' = Append(evals, <<u, fu>>)
    /\ opc' = "loop"
    /\ UNCHANGED simVars
    /\ UNCHANGED kernVars
    /\ UNCHANGED seedVars
    /\ UNCHANGED smpVars
    /\ UNCHANGED <<newParams, fsrs, modelW, plen, simPanics, result, retval, usedW,
                   current, pending, panicked, u, converged, calls, cancelled, nsims>>

\* lines 580, 583-587
Success(it, xmin) == it < maxiter /\ R_MIN <= xmin /\ xmin <= R_MAX

\* lines 579-587: the loop has ended
BrentFinish ==
    /\ opc = "loop"
    /\ converged \/ ~(iter < maxiter)
    /\ opc' = "done"
    /\ IF Success(iter, x)
       THEN result' = "Ok" /\ retval' = x
       ELSE result' = "OptimalNotFound" /\ UNCHANGED retval
    /\ UNCHANGED simVars
    /\ UNCHANGED kernVars
    /\ UNCHANGED seedVars
    /\ UNCHANGED smpVars
    /\ UNCHANGED <<newParams, fsrs, modelW, plen, simPanics, usedW, current, pending,
                   panicked, brentVars, u, converged, calls, cancelled, nsims,
                   nevals, best, evals>>

\* the simulator at rest, while the optimizer is observed
SimIdle ==
    /\ config = <<>> /\ parameters = <<>> /\ desired_retention = 0
    /\ existing_cards = <<>> /\ spc = "idle" /\ card_table = <<>> /\ today = 0
    /\ review_cnt_per_day = <<>> /\ learn_cnt_per_day = <<>>
    /\ memorized_cnt_per_day = <<>> /\ cost_per_day = <<>> /\ last = <<>>

\* sample not called
SmpIdle ==
    /\ outcome = <<>> /\ progress_ok = TRUE /\ smp_pc = "idle" /\ run_seed = <<>>
    /\ run_ratio = <<>> /\ arrived = <<>> /\ smp_ret = <<>>

\* no pair of calls under way
SeedIdle ==
    /\ seed = -1 /\ next_seed = -1 /\ rng = <<>> /\ tape = <<>>
    /\ first_out = <<>> /\ calln = 0

\* the kernel at rest
KernIdle == kin = <<>> /\ kpc = "idle" /\ kfn = "none" /\ kout = 0

Init ==
    /\ SimIdle
    /\ KernIdle
    /\ SeedIdle
    /\ SmpIdle
    /\ newParams \in {-1} \cup ParamLens
    /\ fsrs = "uncalled"
    /\ modelW = "None"
    /\ plen \in ParamLens
    /\ simPanics \in BOOLEAN
    /\ opc = "call"
    /\ result = "none"
    /\ retval = 0
    /\ usedW = "none"
    /\ current = 0
    /\ pending = {}
    /\ panicked = FALSE
    /\ x = 0 /\ v = 0 /\ w = 0 /\ fx = 0 /\ fv = 0 /\ fw = 0
    /\ a = 0 /\ b = 0 /\ deltax = 0 /\ rat = 0 /\ u = 0 /\ iter = 0
    /\ converged = FALSE
    /\ calls = <<>>
    /\ cancelled = FALSE
    /\ nsims = 0
    /\ nevals = 0
    /\ best = 0
    /\ evals = <<>>

Next ==
    \/ FsrsNew
    \/ OptimalRetention
    \/ \E goOn \in BOOLEAN : SampleProgress(goOn)
    \/ \E i \in 0 .. (SAMPLE_SIZE - 1) : SimStep(i)
    \/ SamplePanic
    \/ \E fu \in ObjectiveValues : SampleReturn(fu)
    \/ BrentIterate
    \/ BrentFinish

Spec == Init /\ [][Next]_vars

(***************************************************************************)
(* The deck simulator.  Stability, difficulty, retrievability, the weights *)
(* and desired_retention are counted in units of 0.01 (Unit = 1.0), the    *)
(* factors of the stability formulas in units of 1e-4 (ONE = 1.0); days    *)
(* and costs are whole numbers.                                            *)
(***************************************************************************)
\* 1.0 in the simulator's fixed point (resolution 0.01)
Unit == 10 * 10

\* floor(c * n / d) for c, n >= 0 and d > 0, from quotient and remainder of c
MulDiv(c, n, d) == (c \div d) * n + ((c % d) * n) \div d

RECURSIVE Pow10(_)
Pow10(k) == IF k = 0 THEN 1 ELSE 10 * Pow10(k - 1)

\* floor(n * 10^k / d), digit by digit
RECURSIVE LongDiv(_, _, _)
LongDiv(n, d, k) ==
    IF k = 0 THEN n \div d
    ELSE (n \div d) * Pow10(k) + LongDiv((n % d) * 10, d, k - 1)

\* the square root of n, to the nearest whole number (n <= ONE)
SqrtRound(n) == CHOOSE k \in 0 .. Unit : k * k - k < n /\ n <= k * k + k

Max(m, n) == IF m >= n THEN m ELSE n

\* f64::clamp, which panics when lo > hi
ClampPanics(lo, hi) == lo > hi

Clamp(val, lo, hi) == IF val < lo THEN lo ELSE IF val > hi THEN hi ELSE val

\* the terms z^n / n! from `term` on, in units of 1e-4, until they vanish
RECURSIVE ExpSeries(_, _, _)
ExpSeries(term, z, n) ==
    IF term = 0 \/ n > 12 THEN 0
    ELSE term + ExpSeries(MulDiv(term, z, n * ONE), z, n + 1)

\* exp(z) - 1 for z >= 0 in units of 1e-4
ExpM1(z) == ExpSeries(z, z, 2)

\* f64::exp for z >= 0 in units of 1e-4
Exp(z) == ONE + ExpM1(z)

\* f64::powf(m, e) for the whole exponents -1, 0 and 1 that the weights of
\* the model use; m, e and the result in units of 0.01
Powf(m, e) ==
    IF e = 0 THEN Unit
    ELSE IF e = Unit THEN m
    ELSE DivRound(Unit * Unit, m)

(***************************************************************************)
(* Constants of crate::inference and of the simulator                      *)
(***************************************************************************)
\* FACTOR = 19/81 and DECAY = -0.5: the curve through (s, 0.9)
FACTOR_NUM == 19

FACTOR_DEN == 81

\* S_MIN = 0.01
S_MIN == 1

\* the stability cap 36500.0 of Model::step
S_MAX == 3650000

\* the bounds 1.0 and 10.0 of difficulty
D_MIN == 100

D_MAX == 1000

\* 1e-10, the stability and difficulty of a slot never learned, and 1e-9,
\* the has_learned threshold: both below the resolution
EPSILON == 0

LEARNED_ABOVE == 0

\* f64::INFINITY and usize::MAX: above every sum and count of the model
INFINITY == 1000000

USIZE_MAX == 1000000

first_rating_choices == <<1, 2, 3, 4>>

review_rating_choices == <<2, 3, 4>>

(***************************************************************************)
(* The memory state kernel                                                 *)
(***************************************************************************)
\* (t / s).mul_add(FACTOR, 1.0).powf(DECAY): t in days, s and the result in
\* units of 0.01
power_forgetting_curve(t, s) ==
    LET ratio == LongDiv(t * Unit, s, 4)
        base  == ONE + DivRound(ratio * FACTOR_NUM, FACTOR_DEN)
    IN  SqrtRound(DivRound(ONE * ONE, base))

\* lines 84-93
stability_after_success(wt, s, r, d, response) ==
    LET hard_penalty == IF response = 2 THEN wt[16] ELSE Unit
        easy_bonus   == IF response = 4 THEN wt[17] ELSE Unit
        g1 == MulDiv(Exp(wt[9] * Unit), 11 * Unit - d, Unit)
        g2 == MulDiv(g1, Powf(s, -wt[10]), Unit)
        g3 == MulDiv(g2, ExpM1((Unit - r) * wt[11]), ONE)
        g4 == MulDiv(g3, hard_penalty, Unit)
        factor == MulDiv(g4, easy_bonus, Unit) + ONE
    IN  MulDiv(s, DivRound(factor, Unit), Unit)

\* lines 95-98, before the clamp
failure_raw(wt, s, r, d) ==
    LET f1 == MulDiv(Powf(s + Unit, wt[14]) - Unit, wt[12], Unit)
        f2 == MulDiv(f1, Powf(d, -wt[13]), Unit)
    IN  MulDiv(f2, Exp((Unit - r) * wt[15]), ONE)

\* lines 95-98 with the clamp left out
stability_after_failure_unclamped(wt, s, r, d) == failure_raw(wt, s, r, d)

\* lines 95-98: .clamp(S_MIN.into(), s)
stability_after_failure(wt, s, r, d) == Clamp(failure_raw(wt, s, r, d), S_MIN, s)

\* Model::next_difficulty (model.rs): difficulty - w[6] * (rating - 3)
next_difficulty(wt, d, rating) == d - wt[7] * (rating - 3)

\* Model::mean_reversion: w[7] * (w[4] - new_d) + new_d
mean_reversion(wt, new_d) == DivRound(wt[8] * (wt[5] - new_d), Unit) + new_d

\* Model::step: mean_reversion(next_difficulty(..)).clamp(1.0, 10.0)
step_difficulty(wt, d, rating) ==
    Clamp(mean_reversion(wt, next_difficulty(wt, d, rating)), D_MIN, D_MAX)

\* s / FACTOR * (r^(1 / DECAY) - 1), rounded to whole days and at least 1
next_interval(s, r) ==
    LET f == LongDiv(FACTOR_DEN * (ONE - r * r), FACTOR_NUM * r * r, 4)
    IN  Max(DivRound(MulDiv(s, f, ONE), Unit), 1)

(***************************************************************************)
(* Inputs of simulate                                                      *)
(***************************************************************************)
\* the largest deck_size and learn_span tried
MaxDeck == 4

MaxSpan == 2

\* a 17-element weight vector whose exponents w[9], w[12], w[13] are whole
Weights == <<40, 60, 240, 580, 493, 94, 86, 1, 149, 0, 94, 20, 0, 100, 126, 29, 261>>

\* a seeded card due on day 0 and one, at the stability cap, due on day 1
CardA == [difficulty |-> 500, stability |-> 500, last_date |-> -5, due |-> 0]

CardB == [difficulty |-> 500, stability |-> S_MAX, last_date |-> -36499, due |-> 1]

\* the existing_cards arguments tried: None and Some(vec![..])
Decks == {<<>>, <<CardA>>, <<CardA, CardA>>, <<CardB>>, <<CardB, CardA>>,
          <<CardB, CardB, CardA, CardA>>}

\* SimulatorConfig::default() with the fields the claims vary drawn from
\* small sets; loss_aversion and the probabilities in units of 0.01
Configs ==
    { [deck_size |-> ds, learn_span |-> ls, max_cost_perday |-> mc,
       max_ivl |-> 36500, recall_costs |-> <<14, 10, 6>>, forget_cost |-> 50,
       learn_cost |-> 20, first_rating_prob |-> <<50, 0, 50, 0>>,
       review_rating_prob |-> <<30, 60, 10>>, loss_aversion |-> 250,
       learn_limit |-> ll, review_limit |-> rl] :
         ds \in 0 .. MaxDeck, ls \in 0 .. MaxSpan, mc \in {40, INFINITY},
         ll \in {2, USIZE_MAX}, rl \in {1, USIZE_MAX} }

\* the values Uniform::new(0.0, 1.0) is sampled at, in units of 0.01
RandVals == {50, 95}

\* the ratings a WeightedIndex over `prob` can draw
Support(choices, prob) == {choices[k] : k \in {j \in DOMAIN prob : prob[j] > 0}}

(***************************************************************************)
(* One day of simulate (the body of `for today in 0..learn_span`).  Cards  *)
(* are numbered from 1; rnd, rr and fr are the day's draws of rand_slice,  *)
(* of the review ratings and of the first ratings.                         *)
(***************************************************************************)
Cards == 1 .. config.deck_size

has_learned(i) == card_table[i].stability > LEARNED_ABOVE

delta_t(i) == IF has_learned(i) THEN today - card_table[i].last_date ELSE 0

retrievability(i) ==
    IF has_learned(i) THEN power_forgetting_curve(delta_t(i), card_table[i].stability)
    ELSE 0

need_review == {i \in Cards : card_table[i].due <= today}

\* lines 212-214, from the day's retrievability retr and rand_slice rnd
forget(retr, rnd) == {i \in need_review : rnd[i] > retr[i]}

\* lines 225-233, from the forget mask fg and the review ratings rr
review_cost(fg, rr) ==
    [i \in Cards |->
        IF i \notin need_review THEN 0
        ELSE IF i \in fg
             THEN (config.forget_cost * config.loss_aversion) \div Unit
             ELSE config.recall_costs[rr[i] - 1]]

\* the cost of card i alone
own_cost(c, i) == IF i = 0 THEN 0 ELSE c[i]

RECURSIVE cum_sum(_, _)
cum_sum(c, i) == IF i = 0 THEN 0 ELSE cum_sum(c, i - 1) + c[i]

\* the cards of set S at positions up to i
CountUpTo(S, i) == Cardinality({j \in S : j <= i})

\* the closure of lines 247-254, without the cost cap
ReviewAdmittedNoCap(need_review_flag, cum_cost, review_count) ==
    need_review_flag /\ review_count <= config.review_limit

\* the closure of lines 247-254
ReviewAdmitted(need_review_flag, cum_cost, review_count) ==
    /\ need_review_flag
    /\ cum_cost <= config.max_cost_perday
    /\ review_count <= config.review_limit

\* lines 243-254, from the review costs c
true_review(c) ==
    {i \in Cards : ReviewAdmitted(i \in need_review, cum_sum(c, i),
                                  CountUpTo(need_review, i))}

need_learn == {i \in Cards : card_table[i].due = config.learn_span}

\* lines 258-262: the learn cost written over the review costs c
cost(c) == [i \in Cards |-> IF i \in need_learn THEN config.learn_cost ELSE c[i]]

\* the closure of lines 276-281, without the learn limit
LearnAdmittedNoLimit(need_learn_flag, cum_cost, learn_count) ==
    need_learn_flag /\ cum_cost <= config.max_cost_perday

\* the closure of lines 276-281
LearnAdmitted(need_learn_flag, cum_cost, learn_count) ==
    /\ need_learn_flag
    /\ cum_cost <= config.max_cost_perday
    /\ learn_count <= config.learn_limit

\* lines 264-281, from the day's final costs c
true_learn(c) ==
    {i \in Cards : LearnAdmitted(i \in need_learn, cum_sum(c, i),
                                 CountUpTo(need_learn, i))}

\* lines 290-317 and 356-357: m holds the day's masks, ratings and
\* retrievability
new_stability(i, m) ==
    LET c == card_table[i]
    IN  IF i \in m.true_learn THEN parameters[m.ratings[i]]
        ELSE IF i \in m.true_review \cap m.forget
             THEN stability_after_failure(parameters, c.stability,
                                          m.retrievability[i], c.difficulty)
        ELSE IF i \in m.true_review
             THEN stability_after_success(parameters, c.stability,
                                          m.retrievability[i], c.difficulty,
                                          m.ratings[i])
        ELSE c.stability

\* lines 320-339 and 358
new_difficulty(i, m) ==
    LET c == card_table[i]
    IN  IF i \in m.true_learn
        THEN Clamp(parameters[5] - parameters[6] * (m.ratings[i] - 3), D_MIN, D_MAX)
        ELSE IF i \in m.true_review \cap m.forget
             THEN Clamp(c.difficulty + 2 * parameters[7], D_MIN, D_MAX)
        ELSE IF i \in m.true_review
             THEN Clamp(c.difficulty + parameters[7] * (3 - m.ratings[i]), D_MIN, D_MAX)
        ELSE c.difficulty

\* every due card and every card learned
updated_all_due(m) == m.need_review \cup m.true_learn

\* the filter true_review_flag || true_learn_flag of lines 344, 363 and 372
updated(m) == m.true_review \cup m.true_learn

\* the interval as next_interval gives it
unclamped_interval(ivl) == ivl

\* lines 365-366: .clamp(1.0, max_ivl)
clamp_interval(ivl) == Clamp(ivl, 1, config.max_ivl)

\* lines 341-375
new_card(i, m) ==
    LET ns  == new_stability(i, m)
        ivl == clamp_interval(next_interval(ns, desired_retention))
    IN  IF i \in updated(m)
        THEN [difficulty |-> new_difficulty(i, m),
              stability  |-> ns,
              last_date  |-> today,
              due        |-> today + ivl,
              interval   |-> ivl]
        ELSE card_table[i]

RECURSIVE SumOver(_, _)
SumOver(f, S) ==
    IF S = {} THEN 0
    ELSE LET i == CHOOSE j \in S : TRUE IN f[i] + SumOver(f, S \ {i})

\* the day indexes out of bounds (line 237) or hands clamp a lower bound
\* above the upper one (lines 97 and 366)
day_panics(m) ==
    \/ config.deck_size = 0
    \/ \E i \in m.true_review \cap m.forget : ClampPanics(S_MIN, card_table[i].stability)
    \/ m.true_review \cup m.true_learn # {} /\ ClampPanics(1, config.max_ivl)

\* the masks, ratings and costs of the day under the draws rnd (rand_slice),
\* rr (review ratings) and fr (first ratings)
day(retr, rnd, rr, fr) ==
    LET fg == forget(retr, rnd)
        c1 == review_cost(fg, rr)
        c2 == cost(c1)
        tl == true_learn(c2)
    IN  [need_review |-> need_review,
         forget      |-> fg,
         ratings     |-> [i \in Cards |-> IF i \in tl THEN fr[i]
                                          ELSE IF i \in DOMAIN rr THEN rr[i] ELSE 0],
         cost        |-> c2,
         true_review |-> true_review(c1),
         need_learn  |-> need_learn,
         true_learn  |-> tl,
         retrievability |-> retr,
         old         |-> card_table]

\* every outcome of the day the draws allow
days ==
    LET retr == [i \in Cards |-> retrievability(i)]
    IN  UNION { UNION { { day(retr, rnd, rr, fr) :
                            fr \in [true_learn(cost(review_cost(forget(retr, rnd), rr))) ->
                                      Support(first_rating_choices,
                                              config.first_rating_prob)] } :
                        rr \in [need_review \ forget(retr, rnd) ->
                                  Support(review_rating_choices,
                                          config.review_rating_prob)] } :
                rnd \in [need_review -> RandVals] }

(***************************************************************************)
(* simulate                                                                *)
(***************************************************************************)
\* line 138 indexes past the table when more cards are seeded than it holds
seed_panics == Len(existing_cards) > config.deck_size

\* an array of one zero more than asked for
zeros_one_more(n) == [k \in 1 .. (n + 1) |-> 0]

\* Array1::zeros(n)
zeros(n) == [k \in 1 .. n |-> 0]

\* what lines 128-148 do to the table and the outputs
SimulateBegin ==
    /\ spc = "call"
    /\ ~seed_panics
    /\ card_table' =
          [i \in 1 .. config.deck_size |->
              IF i <= Len(existing_cards)
              THEN [difficulty |-> existing_cards[i].difficulty,
                    stability  |-> existing_cards[i].stability,
                    last_date  |-> existing_cards[i].last_date,
                    due        |-> existing_cards[i].due,
                    interval   |-> 0]
              ELSE [difficulty |-> EPSILON, stability |-> EPSILON, last_date |-> 0,
                    due |-> config.learn_span, interval |-> 0]]
    /\ review_cnt_per_day' = zeros(config.learn_span)
    /\ learn_cnt_per_day' = zeros(config.learn_span)
    /\ memorized_cnt_per_day' = zeros(config.learn_span)
    /\ cost_per_day' = zeros(config.learn_span)
    /\ today' = 0
    /\ spc' = "loop"
    /\ UNCHANGED <<config, parameters, desired_retention, existing_cards, last>>

\* lines 128-148: the table, seeded from existing_cards, and the outputs
Simulate ==
    /\ SimulateBegin
    /\ UNCHANGED optVars
    /\ UNCHANGED kernVars
    /\ UNCHANGED seedVars
    /\ UNCHANGED smpVars

\* the day's retrievability, with each card learned today counted as recalled
memorized_with_learned_today(m) ==
    SumOver(m.retrievability, Cards) + Unit * Cardinality(m.true_learn)

\* line 393: retrievability.sum(), over the retrievability of lines 173-185
memorized(m) == SumOver(m.retrievability, Cards)

\* lines 377-398: the day's masks m written to the table and the outputs
DayUpdate(m) ==
    /\ card_table' = [i \in Cards |-> new_card(i, m)]
    /\ review_cnt_per_day' =
          [review_cnt_per_day EXCEPT ![today + 1] = Cardinality(m.true_review)]
    /\ learn_cnt_per_day' =
          [learn_cnt_per_day EXCEPT ![today + 1] = Cardinality(m.true_learn)]
    /\ memorized_cnt_per_day' =
          [memorized_cnt_per_day EXCEPT ![today + 1] = memorized(m)]
    /\ cost_per_day' =
          [cost_per_day EXCEPT
              ![today + 1] = SumOver(m.cost, m.true_review \cup m.true_learn)]
    /\ last' = m
    /\ today' = today + 1
    /\ UNCHANGED <<config, parameters, desired_retention, existing_cards, spc>>

\* lines 159-399: one pass of the loop
SimulateDay ==
    /\ spc = "loop"
    /\ today < config.learn_span
    /\ \E m \in days : ~day_panics(m) /\ DayUpdate(m)
    /\ UNCHANGED optVars
    /\ UNCHANGED kernVars
    /\ UNCHANGED seedVars
    /\ UNCHANGED smpVars

\* the call unwinds at line 138, 237, 97 or 366
SimulatePanic ==
    /\ \/ spc = "call" /\ seed_panics
       \/ /\ spc = "loop"
          /\ today < config.learn_span
          /\ \E m \in days : day_panics(m)
    /\ spc' = "panic"
    /\ UNCHANGED <<config, parameters, desired_retention, existing_cards, card_table,
                   today, review_cnt_per_day, learn_cnt_per_day,
                   memorized_cnt_per_day, cost_per_day, last>>
    /\ UNCHANGED optVars
    /\ UNCHANGED kernVars
    /\ UNCHANGED seedVars
    /\ UNCHANGED smpVars

\* lines 401-406
SimulateReturn ==
    /\ spc = "loop"
    /\ today = config.learn_span
    /\ spc' = "done"
    /\ UNCHANGED <<config, parameters, desired_retention, existing_cards, card_table,
                   today, review_cnt_per_day, learn_cnt_per_day,
                   memorized_cnt_per_day, cost_per_day, last>>
    /\ UNCHANGED optVars
    /\ UNCHANGED kernVars
    /\ UNCHANGED seedVars
    /\ UNCHANGED smpVars

\* the optimizer at rest, while simulate is observed
OptIdle ==
    /\ newParams = -1 /\ fsrs = "uncalled" /\ modelW = "None" /\ plen = 17
    /\ simPanics = FALSE /\ opc = "call" /\ result = "none" /\ retval = 0
    /\ usedW = "none" /\ current = 0 /\ pending = {} /\ panicked = FALSE
    /\ x = 0 /\ v = 0 /\ w = 0 /\ fx = 0 /\ fv = 0 /\ fw = 0
    /\ a = 0 /\ b = 0 /\ deltax = 0 /\ rat = 0 /\ u = 0 /\ iter = 0
    /\ converged = FALSE /\ calls = <<>> /\ cancelled = FALSE
    /\ nsims = 0 /\ nevals = 0 /\ best = 0 /\ evals = <<>>

SimInit ==
    /\ OptIdle
    /\ KernIdle
    /\ SeedIdle
    /\ SmpIdle
    /\ config \in Configs
    /\ parameters = Weights
    /\ desired_retention = 90
    /\ existing_cards \in Decks
    /\ spc = "call"
    /\ card_table = <<>>
    /\ today = 0
    /\ review_cnt_per_day = <<>> /\ learn_cnt_per_day = <<>>
    /\ memorized_cnt_per_day = <<>> /\ cost_per_day = <<>>
    /\ last = <<>>

SimNext == Simulate \/ SimulateDay \/ SimulatePanic \/ SimulateReturn

SimSpec == SimInit /\ [][SimNext]_vars

(***************************************************************************)
(* simulate called twice in a row with seeds.  StdRng is a function of its *)
(* seed: the values a seed yields are written to `tape` when first drawn   *)
(* and read from it by every later call with that seed.                    *)
(***************************************************************************)
\* the u64 seeds tried, and the Option<u64> arguments: -1 is None
SeedVals == {42, 43}

Seeds == {-1} \cup SeedVals

\* seed.unwrap_or(43) in place of line 156
unwrap_or_other(sd) == IF sd = -1 THEN 43 ELSE sd

\* line 156: seed.unwrap_or(42)
unwrap_or(sd) == IF sd = -1 THEN 42 ELSE sd

\* the values one draw of the generator can give, as uniforms in units of 0.01
DrawVals == {20, 95}

\* WeightedIndex::sample: the choice whose cumulative weight first exceeds
\* the uniform uu scaled to the total weight
WeightedChoice(choices, prob, uu) ==
    LET total == cum_sum(prob, Len(prob))
    IN  choices[CHOOSE k \in DOMAIN prob :
                   /\ uu * total < cum_sum(prob, k) * Unit
                   /\ \A j \in 1 .. (k - 1) : uu * total >= cum_sum(prob, j) * Unit]

\* the day when the generator yields tp[1], tp[2], ...: lines 199, 221 and
\* 287 draw in this order, each mask in card order
drawn(tp) ==
    LET retr == [i \in Cards |-> retrievability(i)]
        n1   == Cardinality(need_review)
        rnd  == [i \in need_review |-> tp[CountUpTo(need_review, i)]]
        fg   == forget(retr, rnd)
        rc   == need_review \ fg
        rr   == [i \in rc |-> WeightedChoice(review_rating_choices,
                                             config.review_rating_prob,
                                             tp[n1 + CountUpTo(rc, i)])]
        tl   == true_learn(cost(review_cost(fg, rr)))
        fr   == [i \in tl |-> WeightedChoice(first_rating_choices,
                                             config.first_rating_prob,
                                             tp[n1 + Cardinality(rc) + CountUpTo(tl, i)])]
    IN  [m |-> day(retr, rnd, rr, fr),
         used |-> n1 + Cardinality(rc) + Cardinality(tl)]

\* lines 128-156 of a seeded call
SeededSimulate ==
    /\ calln \in {1, 2}
    /\ SimulateBegin
    /\ rng' = [seed |-> unwrap_or(seed), pos |-> 0]
    /\ UNCHANGED <<seed, next_seed, tape, first_out, calln>>
    /\ UNCHANGED <<optVars, kernVars>>
    /\ UNCHANGED smpVars

\* lines 159-399 with the day's values drawn from rng
SeededDay ==
    /\ calln \in {1, 2}
    /\ spc = "loop"
    /\ today < config.learn_span
    /\ \E tp \in [1 .. (2 * config.deck_size) -> DrawVals] :
          LET seen == tape[rng.seed]
              dr   == drawn(tp)
              upto == rng.pos + dr.used
          IN  /\ \A k \in 1 .. dr.used :
                    rng.pos + k <= Len(seen) => tp[k] = seen[rng.pos + k]
              /\ \A k \in DOMAIN tp : k > dr.used => tp[k] = 20  \* not drawn
              /\ ~day_panics(dr.m)
              /\ DayUpdate(dr.m)
              /\ rng' = [rng EXCEPT !.pos = upto]
              /\ tape' = [tape EXCEPT ![rng.seed] =
                            IF Len(seen) >= upto THEN seen
                            ELSE seen \o [k \in 1 .. (upto - Len(seen)) |->
                                             tp[Len(seen) - rng.pos + k]]]
    /\ UNCHANGED <<seed, next_seed, first_out, calln>>
    /\ UNCHANGED <<optVars, kernVars>>
    /\ UNCHANGED smpVars

\* the caller keeps what the first call returned and calls again
SecondCall ==
    /\ calln = 1
    /\ spc = "done"
    /\ first_out' = [seed |-> seed,
                     out  |-> <<memorized_cnt_per_day, review_cnt_per_day,
                                learn_cnt_per_day, cost_per_day>>]
    /\ seed' = next_seed
    /\ calln' = 2
    /\ spc' = "call"
    /\ card_table' = <<>> /\ today' = 0 /\ last' = <<>> /\ rng' = <<>>
    /\ review_cnt_per_day' = <<>> /\ learn_cnt_per_day' = <<>>
    /\ memorized_cnt_per_day' = <<>> /\ cost_per_day' = <<>>
    /\ UNCHANGED <<config, parameters, desired_retention, existing_cards, next_seed, tape>>
    /\ UNCHANGED <<optVars, kernVars>>
    /\ UNCHANGED smpVars

SeededInit ==
    /\ OptIdle
    /\ KernIdle
    /\ SmpIdle
    /\ config \in {c \in Configs : /\ c.deck_size = 2 /\ c.learn_span \in {1, 2}
                                   /\ c.max_cost_perday = INFINITY
                                   /\ c.learn_limit = USIZE_MAX
                                   /\ c.review_limit = USIZE_MAX}
    /\ parameters = Weights
    /\ desired_retention = 90
    /\ existing_cards \in {<<>>, <<CardA>>}
    /\ spc = "call"
    /\ card_table = <<>>
    /\ today = 0
    /\ review_cnt_per_day = <<>> /\ learn_cnt_per_day = <<>>
    /\ memorized_cnt_per_day = <<>> /\ cost_per_day = <<>>
    /\ last = <<>>
    /\ seed \in Seeds
    /\ next_seed \in Seeds
    /\ rng = <<>>
    /\ tape = [sv \in SeedVals |-> <<>>]
    /\ first_out = <<>>
    /\ calln = 1

SeededNext == SeededSimulate \/ SeededDay \/ SimulateReturn \/ SecondCall

SeededSpec == SeededInit /\ [][SeededNext]_vars

(***************************************************************************)
(* sample: the parallel runs and the reduction of their values.  f64       *)
(* addition rounds, so the value of a sum depends on how it is bracketed;  *)
(* the model keeps that with a float of three significant bits.            *)
(***************************************************************************)
\* the spacing of the floats around m
Ulp(m) == IF m < 8 THEN 1 ELSE IF m < 16 THEN 2 ELSE IF m < 32 THEN 4 ELSE 8

\* m rounded to the nearest float, ties to the even one
FRound(m) ==
    LET step == Ulp(m)
        lo   == (m \div step) * step
    IN  IF 2 * (m - lo) < step THEN lo
        ELSE IF 2 * (m - lo) > step THEN lo + step
        ELSE IF (lo \div step) % 2 = 0 THEN lo ELSE lo + step

\* f64 addition
FAdd(m, n) == FRound(m + n)

\* the values total_cost / total_memorized of a run can take
RunRatios == {1, 8}

\* SumFolder over the runs lo .. hi in index order, from 0.0
RECURSIVE FoldSum(_, _, _)
FoldSum(vals, lo, hi) ==
    IF hi < lo THEN 0 ELSE FAdd(FoldSum(vals, lo, hi - 1), vals[hi])

\* rayon's bridge over the runs lo .. hi: a range of two or more is split at
\* its middle when split[<<lo, hi>>] holds and folded in order otherwise; the
\* halves are added left to right
RECURSIVE Bridge(_, _, _, _)
Bridge(vals, lo, hi, split) ==
    LET mid == lo + (hi - lo + 1) \div 2
    IN  IF hi - lo + 1 >= 2 /\ split[<<lo, hi>>]
        THEN FAdd(Bridge(vals, lo, mid - 1, split), Bridge(vals, mid, hi, split))
        ELSE FoldSum(vals, lo, hi)

\* the values added up in the order the runs finished
RECURSIVE ArrivalSum(_, _, _)
ArrivalSum(vals, order, k) ==
    IF k = 0 THEN 0 ELSE FAdd(ArrivalSum(vals, order, k - 1), vals[order[k]])

\* .sum() that adds each value as its run finishes
par_sum_as_finished(vals, order, split) == ArrivalSum(vals, order, Len(order))

\* lines 422-436: (0..n).into_par_iter().map(..).sum::<f64>()
par_sum(vals, order, split) == Bridge(vals, 0, SAMPLE_SIZE - 1, split)

\* the splits the Splitter can decide on: the whole range is always split
\* (splits starts at the thread count, at least 1), a half only if stolen or
\* if splits are left
Splits ==
    {sp \in [{<<0, SAMPLE_SIZE - 1>>, <<0, SAMPLE_SIZE \div 2 - 1>>,
              <<SAMPLE_SIZE \div 2, SAMPLE_SIZE - 1>>} -> BOOLEAN] :
        sp[<<0, SAMPLE_SIZE - 1>>]}

\* lines 419-421: progress() decides whether the runs start
SampleCall ==
    /\ smp_pc = "call"
    /\ IF progress_ok
       THEN smp_pc' = "batch" /\ UNCHANGED smp_ret
       ELSE smp_pc' = "done" /\ smp_ret' = [tag |-> "Interrupted", val |-> 0]
    /\ UNCHANGED <<outcome, progress_ok, run_seed, run_ratio, arrived>>
    /\ UNCHANGED <<optVars, simVars, kernVars, seedVars>>

\* lines 424-434: run i, on any thread and at any time, calls simulate with
\* seed i + 42 and no existing cards and keeps the ratio it computes
SampleRun(i) ==
    /\ smp_pc = "batch"
    /\ i \notin DOMAIN run_ratio
    /\ run_seed' = [k \in DOMAIN run_seed \cup {i} |->
                       IF k = i THEN i + 42 ELSE run_seed[k]]
    /\ run_ratio' = [k \in DOMAIN run_ratio \cup {i} |->
                        IF k = i THEN outcome[i + 42] ELSE run_ratio[k]]
    /\ arrived' = Append(arrived, i)
    /\ UNCHANGED <<outcome, progress_ok, smp_pc, smp_ret>>
    /\ UNCHANGED <<optVars, simVars, kernVars, seedVars>>

\* lines 436-437: the sum of the runs, divided by n
SampleSum ==
    /\ smp_pc = "batch"
    /\ DOMAIN run_ratio = 0 .. (SAMPLE_SIZE - 1)
    /\ \E sp \in Splits :
          smp_ret' = [tag |-> "Ok",
                      val |-> FRound(par_sum(run_ratio, arrived, sp) \div SAMPLE_SIZE)]
    /\ smp_pc' = "done"
    /\ UNCHANGED <<outcome, progress_ok, run_seed, run_ratio, arrived>>
    /\ UNCHANGED <<optVars, simVars, kernVars, seedVars>>

SmpInit ==
    /\ OptIdle
    /\ SimIdle
    /\ KernIdle
    /\ SeedIdle
    /\ outcome \in [42 .. (42 + SAMPLE_SIZE - 1) -> RunRatios]
    /\ progress_ok \in BOOLEAN
    /\ smp_pc = "call"
    /\ run_seed = <<>>
    /\ run_ratio = <<>>
    /\ arrived = <<>>
    /\ smp_ret = <<>>

SmpNext == SampleCall \/ (\E i \in 0 .. (SAMPLE_SIZE - 1) : SampleRun(i)) \/ SampleSum

SamplerSpec == SmpInit /\ [][SmpNext]_vars

(***************************************************************************)
(* The memory state kernel called on its own                               *)
(***************************************************************************)
\* Weights with w[11] = 2.0, under which a lapse would raise the stability
WeightsSteep == [Weights EXCEPT ![12] = 200]

\* the stabilities, retrievabilities and difficulties the kernel is called at
KernStabilities == {EPSILON, S_MIN, 40, 500, S_MAX}

KernRetrievabilities == {0, 50, 90, Unit}

KernDifficulties == {D_MIN, 500, D_MAX}

\* lines 95-98: the call returns
StabilityAfterFailure ==
    /\ kpc = "call"
    /\ ~ClampPanics(S_MIN, kin.s)
    /\ kout' = stability_after_failure(kin.wt, kin.s, kin.r, kin.d)
    /\ kfn' = "stability_after_failure"
    /\ kpc' = "done"
    /\ UNCHANGED kin
    /\ UNCHANGED <<optVars, simVars>>
    /\ UNCHANGED seedVars
    /\ UNCHANGED smpVars

\* line 97: clamp asserts min <= max, and s < S_MIN unwinds the call
StabilityAfterFailurePanic ==
    /\ kpc = "call"
    /\ ClampPanics(S_MIN, kin.s)
    /\ kfn' = "stability_after_failure"
    /\ kpc' = "panic"
    /\ UNCHANGED <<kin, kout>>
    /\ UNCHANGED <<optVars, simVars>>
    /\ UNCHANGED seedVars
    /\ UNCHANGED smpVars

KernInit ==
    /\ OptIdle
    /\ SimIdle
    /\ SeedIdle
    /\ SmpIdle
    /\ kin \in [wt : {Weights, WeightsSteep}, s : KernStabilities,
                r : KernRetrievabilities, d : KernDifficulties]
    /\ kpc = "call"
    /\ kfn = "none"
    /\ kout = 0

KernNext == StabilityAfterFailure \/ StabilityAfterFailurePanic

KernelSpec == KernInit /\ [][KernNext]_vars

(***************************************************************************)
(* Claims about optimal_retention                                          *)
(***************************************************************************)
\* C1: a parameter vector whose length is neither 0 nor 17 makes
\* optimal_retention return InvalidParameters before the callback is called
\* and before any simulation runs; an empty vector passes validation and the
\* search runs with the default vector; FSRS::new applies the same rule to
\* Some(parameters).
C1_InvalidParameters ==
    /\ (opc # "call" /\ plen \notin {0, 17}) =>
           /\ opc = "done" /\ result = "InvalidParameters"
           /\ calls = <<>> /\ nsims = 0 /\ pending = {} /\ usedW = "none"
    /\ (opc # "call" /\ plen = 0) =>
           result # "InvalidParameters" /\ usedW = "default"
    /\ (opc # "call" /\ plen = 17) =>
           result # "InvalidParameters" /\ usedW = "given"
    /\ fsrs # "uncalled" =>
           /\ (fsrs = "InvalidParameters") = (newParams \notin {-1, 0, 17})
           /\ newParams = 0 => modelW = "default"

C1_Witness ==
    /\ fsrs = "Ok" /\ newParams = 0
    /\ plen = 18 /\ opc = "done" /\ result = "InvalidParameters"

\* C2: once the callback has returned false (on the first call or on a later
\* one) optimal_retention has returned Interrupted and no retention value.
C2_Interrupted ==
    cancelled => opc = "done" /\ result = "Interrupted" /\ retval = 0

C2_Witness == cancelled /\ Len(calls) >= 3 /\ result = "Interrupted"

\* C3: the callback is called once per objective evaluation, never once per
\* simulation run, with the indices 1, 2, 3, ...
C3_OncePerEvaluation ==
    /\ \A i \in 1 .. Len(calls) : calls[i] = i
    /\ Len(calls) =
          nevals + (IF opc = "batch" \/ result \in {"Interrupted", "Panic"} THEN 1 ELSE 0)
    /\ ~simPanics =>
          nsims = SAMPLE_SIZE * nevals
                  + (IF opc = "batch" THEN SAMPLE_SIZE - Cardinality(pending) ELSE 0)

C3_Witness == Len(calls) = 3 /\ nsims = 3 * SAMPLE_SIZE /\ opc = "loop"

\* C4: the step in which the callback returns false starts no simulation and
\* leaves the bracket and the triple alone, after it no simulation runs, the
\* callback is not called and the search state does not change, and every
\* batch started before it ran all its SAMPLE_SIZE simulations.
C4_CancelAtBoundary ==
    /\ [][(cancelled' => UNCHANGED <<brentVars, nsims, pending>>)
          /\ (cancelled => UNCHANGED <<brentVars, u, nsims, pending, calls, nevals>>)]_vars
    /\ [](cancelled => pending = {} /\ nsims = SAMPLE_SIZE * (Len(calls) - 1))

C4_Witness == cancelled /\ nsims = 2 * SAMPLE_SIZE /\ opc = "done"

\* C5: Ok(x) is returned only when the loop left through its convergence test
\* with fewer than 64 iterations done and x in [0.75, 0.95]; a search that
\* ends with 64 iterations done or with x outside returns OptimalNotFound.
C5_OkOnlyIfConverged ==
    /\ result = "Ok" =>
          /\ iter < maxiter
          /\ Abs(2 * x - (a + b)) < 2 * Tol2(x) - (b - a)
          /\ retval = x /\ R_MIN <= x /\ x <= R_MAX
    /\ (opc = "done" /\ result \notin {"InvalidParameters", "Interrupted", "Panic"}
          /\ (iter >= maxiter \/ x < R_MIN \/ x > R_MAX)) =>
          result = "OptimalNotFound"

C5_Witness == result = "Ok" /\ iter >= 4 /\ x > R_MIN

(***************************************************************************)
(* Claims about simulate (checked under SimSpec)                           *)
(***************************************************************************)
\* the slots that were neither seeded nor learned when the last day began
NeverLearned ==
    {i \in DOMAIN last.old : i > Len(existing_cards) /\ last.old[i].stability = EPSILON}

\* the cards admitted on the last day
Admitted == last.true_review \cup last.true_learn

\* C6: with deck_size = 0 or learn_span = 0 (and nothing seeded) simulate
\* does not fail, and the four sequences it returns are empty.
C6_EmptyDoesNotFail ==
    (existing_cards = <<>> /\ (config.deck_size = 0 \/ config.learn_span = 0)) =>
        /\ spc # "panic"
        /\ spc = "done" =>
              /\ memorized_cnt_per_day = <<>> /\ review_cnt_per_day = <<>>
              /\ learn_cnt_per_day = <<>> /\ cost_per_day = <<>>

\* C7: the cost of a simulated day exceeds max_cost_perday by no more than
\* the cost of one card admitted that day, whatever the order of the deck.
C7_CostOvershootOneCard ==
    today > 0 =>
        \/ cost_per_day[today] <= config.max_cost_perday
        \/ \E i \in Admitted :
              cost_per_day[today] <= config.max_cost_perday + last.cost[i]

\* C8: a day learns at most learn_limit cards, and exactly learn_limit when
\* the cost cap is infinite and at least learn_limit never-learned cards
\* remained.
C8_LearnLimit ==
    today > 0 =>
        /\ learn_cnt_per_day[today] <= config.learn_limit
        /\ (config.max_cost_perday = INFINITY
              /\ Cardinality(NeverLearned) >= config.learn_limit)
           => learn_cnt_per_day[today] = config.learn_limit

\* a day with an infinite cap and three never-learned cards learned two
C8_Witness ==
    /\ today > 0
    /\ config.learn_limit = 2
    /\ config.max_cost_perday = INFINITY
    /\ Cardinality(NeverLearned) >= 3
    /\ learn_cnt_per_day[today] = 2

\* C9: a day reviews at most review_limit cards, and the review costs of
\* the cards it admits sum to at most max_cost_perday.
C9_ReviewLimitAndCap ==
    today > 0 =>
        /\ review_cnt_per_day[today] <= config.review_limit
        /\ review_cnt_per_day[today] = Cardinality(last.true_review)
        /\ SumOver(last.cost, last.true_review) <= config.max_cost_perday

\* a day on which the cost cap, not the review limit, turned a due card away
C9_Witness ==
    /\ today > 0
    /\ config.max_cost_perday = 40
    /\ config.review_limit = USIZE_MAX
    /\ last.true_review # {}
    /\ last.need_review \ last.true_review # {}

\* C10: after a simulated day every card the day updated has its difficulty
\* in [1, 10] and its stability in [S_MIN, 36500].
C10_UpdatedCardsInRange ==
    today > 0 =>
        \A i \in Admitted :
            /\ D_MIN <= card_table[i].difficulty /\ card_table[i].difficulty <= D_MAX
            /\ S_MIN <= card_table[i].stability /\ card_table[i].stability <= S_MAX

\* the four sequences simulate fills
Outputs == <<memorized_cnt_per_day, review_cnt_per_day, learn_cnt_per_day, cost_per_day>>

\* C14: simulate returns four sequences of length learn_span each; entry t
\* holds the counts and the cost of day t and is not written again.
C14_OutputsPerDay ==
    /\ [](spc = "done" => \A q \in 1 .. 4 : Len(Outputs[q]) = config.learn_span)
    /\ []((today > 0 /\ spc \in {"loop", "done"}) =>
            /\ review_cnt_per_day[today] = Cardinality(last.true_review)
            /\ learn_cnt_per_day[today] = Cardinality(last.true_learn)
            /\ memorized_cnt_per_day[today] = SumOver(last.retrievability, DOMAIN last.old)
            /\ cost_per_day[today] = SumOver(last.cost, Admitted)
            /\ \A q \in 1 .. 4 : \A k \in (today + 1) .. config.learn_span :
                  Outputs[q][k] = 0)
    /\ [][\A q \in 1 .. 4 : \A k \in 1 .. today : Outputs[q]'[k] = Outputs[q][k]]_vars

\* a call over two days returned, with cards admitted on both days
C14_Witness ==
    /\ spc = "done" /\ config.learn_span = 2
    /\ Len(cost_per_day) = 2 /\ cost_per_day[1] > 0 /\ cost_per_day[2] > 0

\* C15: a card admitted as a first learn has never been admitted before:
\* no card of an unseeded deck is learned twice in a run.
C15_LearnedOnce ==
    (existing_cards = <<>> /\ today > 0) =>
        \A i \in last.true_learn : ~(last.old[i].stability > LEARNED_ABOVE)

\* C16: a card that is not admitted on a day keeps its difficulty, stability,
\* last review day, due day and interval, and a due card that was deferred
\* is due again on the next day.
C16_NotAdmittedUnchanged ==
    today > 0 =>
        /\ \A i \in DOMAIN card_table \ Admitted : card_table[i] = last.old[i]
        /\ (spc = "loop" /\ today < config.learn_span) =>
              last.need_review \ last.true_review \subseteq need_review

\* a due card was deferred on day 0 and is due on day 1
C16_Witness ==
    /\ spc = "loop" /\ today = 1 /\ config.learn_span = 2
    /\ \E i \in last.need_review \ last.true_review :
          i \in need_review /\ card_table[i] = last.old[i]

\* C17: admission follows the card order: when a due card is admitted for
\* review, so is every due card before it, and when a never-learned card is
\* admitted as a first learn, so is every never-learned card before it.
C17_GreedyInIndexOrder ==
    today > 0 =>
        /\ \A i \in last.true_review : \A j \in last.need_review :
              j < i => j \in last.true_review
        /\ \A i \in last.true_learn \cap NeverLearned : \A j \in NeverLearned :
              j < i => j \in last.true_learn

\* two never-learned cards were learned and a later one was turned away, on
\* a day that also admitted a review
C17_Witness ==
    /\ today > 0
    /\ last.true_review # {}
    /\ \E i, j \in last.true_learn \cap NeverLearned : i < j
    /\ \E k \in NeverLearned \ last.true_learn : \A i \in last.true_learn : i < k

\* the running cost up to card i as the claim C18 counts it: the review costs
\* of the due cards up to i and learn_cost for each never-learned card up to i
RunningCost(i) ==
    SumOver(last.cost, {j \in last.need_review : j <= i})
        + config.learn_cost * CountUpTo(NeverLearned, i)

\* C18: a never-learned card at index i is admitted as a first learn exactly
\* when the running cost up to i is at most max_cost_perday and the number
\* of never-learned cards up to i is at most learn_limit.
C18_LearnAdmission ==
    today > 0 =>
        \A i \in NeverLearned :
            i \in last.true_learn <=>
                /\ RunningCost(i) <= config.max_cost_perday
                /\ CountUpTo(NeverLearned, i) <= config.learn_limit

\* C19: a card admitted on day t ends the day with last review day t, an
\* interval in [1, max_ivl] and due day t + interval, so it is not due again
\* on day t; no card is admitted both as a review and as a first learn.
C19_AdmittedRescheduled ==
    today > 0 =>
        /\ \A i \in Admitted :
              /\ card_table[i].last_date = today - 1
              /\ 1 <= card_table[i].interval
              /\ card_table[i].interval <= config.max_ivl
              /\ card_table[i].due = today - 1 + card_table[i].interval
              /\ card_table[i].due > today - 1
        /\ last.true_review \cap last.true_learn = {}

\* a card whose stability asks for more than max_ivl days was given max_ivl
C19_Witness ==
    /\ today > 0
    /\ \E i \in Admitted :
          /\ next_interval(card_table[i].stability, desired_retention) > config.max_ivl
          /\ card_table[i].interval = config.max_ivl

\* C20: the difficulty simulate gives a card admitted as recalled with
\* rating 2, 3 or 4 is the one Model::step gives: d - w6 * (rating - 3),
\* mean-reverted toward w4 by w7, clamped to [1, 10].
C20_RecallDifficultyAsStep ==
    today > 0 =>
        \A i \in last.true_review \ last.forget :
            card_table[i].difficulty =
                step_difficulty(parameters, last.old[i].difficulty, last.ratings[i])

\* the cards that were learned when the last day began
LearnedBefore == {i \in DOMAIN last.old : last.old[i].stability > LEARNED_ABOVE}

\* the recall probability of card i on the last day, from the table as it was
\* when that day began
RecallBefore(i) ==
    power_forgetting_curve(today - 1 - last.old[i].last_date, last.old[i].stability)

\* C21: the memorized value of day t is the sum of the recall probabilities
\* of the cards already learned when day t began, taken from the table as it
\* was before the day's admissions; a card first learned on day t and a
\* never-learned card add nothing.
C21_MemorizedBeforeAdmission ==
    today > 0 =>
        /\ memorized_cnt_per_day[today] =
              SumOver([i \in LearnedBefore |-> RecallBefore(i)], LearnedBefore)
        /\ \A i \in DOMAIN last.old \ LearnedBefore : last.retrievability[i] = 0

\* a day that began with a learned card, learned a new card and left another
\* slot unlearned
C21_Witness ==
    /\ today > 0
    /\ LearnedBefore # {}
    /\ last.true_learn \ LearnedBefore # {}
    /\ \E i \in DOMAIN card_table \ LearnedBefore : card_table[i].stability = EPSILON
    /\ memorized_cnt_per_day[today] > 0

\* C22: on every simulated day no card is both due for review and eligible
\* as a first learn, no card is admitted both as a review and as a first
\* learn, and a card that is not due and is not a fresh slot is admitted as
\* neither.
C22_ClassesExclusive ==
    today > 0 =>
        /\ last.need_review \cap last.need_learn = {}
        /\ last.true_review \cap last.true_learn = {}
        /\ \A i \in DOMAIN last.old :
              (last.old[i].due > today - 1 /\ i \notin NeverLearned) => i \notin Admitted

PairedSum == FAdd(FAdd(outcome[42], outcome[43]), FAdd(outcome[44], outcome[45]))

EvalValues == {evals[k][2] : k \in DOMAIN evals}

\* the value the last evaluation returned, in the state after it
LastValue == evals'[Len(evals')][2]

\* a step that ends an evaluation of a trial point of the loop
TrialEvaluated == Len(evals) >= 1 /\ Len(evals') = Len(evals) + 1

\* C23: after every update fx is the least value the objective has returned
\* and x is a point at which it was returned; a trial u with f(u) <= fx
\* becomes x, the old x and w becoming w and v, and a trial with f(u) > fx
\* leaves x in place.
C23_BestPointKept ==
    /\ [](Len(evals) >= 1 =>
            /\ \A val \in EvalValues : fx <= val
            /\ \E k \in DOMAIN evals : evals[k] = <<x, fx>>)
    /\ [][TrialEvaluated =>
            IF LastValue <= fx
            THEN /\ x' = u /\ fx' = LastValue
                 /\ w' = x /\ fw' = fx
                 /\ v' = w /\ fv' = fw
            ELSE x' = x /\ fx' = fx]_vars

\* two trials in a row improved on x, after which a worse one left x in place
C23_Witness ==
    /\ Len(evals) >= 4
    /\ evals[2][2] < evals[1][2]
    /\ evals[3][2] < evals[2][2]
    /\ evals[Len(evals)][2] > fx
    /\ x = evals[3][1] /\ x # evals[Len(evals)][1]

\* C24: after the initial evaluation and after every update x is the best,
\* w the second-best and v the third-best point: fx <= fw <= fv.
C24_Ordered == Len(evals) >= 1 => (fx <= fw /\ fw <= fv)

\* C24, as amended: fx <= fw after the initial evaluation and after every
\* update, and fw <= fv from the second update on; after a first trial worse
\* than the starting point v is still the starting point, with fv = fx < fw.
C24_OrderedFromSecondUpdate ==
    Len(evals) >= 1 =>
        /\ fx <= fw
        /\ Len(evals) >= 3 => fw <= fv
        /\ fw > fv => (v = x /\ fv = fx /\ w = evals[2][1])

\* the first trial was worse than the starting point, and the second update
\* has put the three values in order, all different
C24_Witness ==
    /\ Len(evals) = 3
    /\ evals[2][2] > evals[1][2]
    /\ fx < fw /\ fw < fv

\* C25: throughout the search R_MIN <= a <= x <= b <= R_MAX, every trial
\* point u handed to the sampler lies in the bracket [a, b], also when it was
\* moved by the minimum step tol1, and the width b - a of the bracket never
\* grows from one iteration to the next.
C25_BracketHolds ==
    /\ [](Len(evals) >= 1 =>
            /\ R_MIN <= a /\ a <= x /\ x <= b /\ b <= R_MAX
            /\ opc \in {"sample", "batch"} => (a <= u /\ u <= b)
            /\ \A k \in DOMAIN evals : R_MIN <= evals[k][1] /\ evals[k][1] <= R_MAX)
    /\ [][Len(evals) >= 1 => b' - a' <= b - a]_vars

\* a trial point moved by the minimum step tol1 is about to be evaluated in a
\* bracket that both ends have moved
C25_Witness ==
    /\ opc = "sample" /\ Len(evals) >= 3
    /\ R_MIN < a /\ b < R_MAX
    /\ Abs(rat) < Tol1(x)
    /\ Abs(u - x) = Tol1(x)

\* C26: a call of optimal_retention that starts the search runs the loop at
\* most 64 times, evaluates the objective and calls the callback at most 65
\* times, and then ends with a value, OptimalNotFound or Interrupted; a
\* failure ends the call, with no evaluation left to run.
C26_EndsWithResult ==
    /\ iter <= maxiter
    /\ Len(evals) <= maxiter + 1
    /\ Len(calls) <= maxiter + 1
    /\ (opc = "done" /\ usedW # "none") =>
          result \in {"Ok", "OptimalNotFound", "Interrupted"}
    /\ result \in {"OptimalNotFound", "Interrupted"} => opc = "done"

====
